---------------------------- MODULE Spec2Model ----------------------------
(***************************************************************************)
(* Model of supernova's node tree (source/server/group.hpp): server_node   *)
(* parent links and reference counts, abstract_group child lists and       *)
(* cached child counts, group::tail_nodes, and the compilation of a tree   *)
(* into a dsp thread queue that worker threads drain.                      *)
(***************************************************************************)
EXTENDS Integers, Sequences, FiniteSets, TLC

\* ------------------------------------------------------------------ bounds
MaxTreeNodes == 4   \* nodes of the mutation model, the root included
MaxSynths    == 3   \* synths in a compiled tree
MaxGroups    == 4   \* groups in a compiled tree, besides the root
MaxDepth     == 4   \* nesting depth of a compiled tree
MaxPaused    == 1   \* pause requests outstanding at a time
NumWorkers   == 2   \* dsp threads draining a queue
MaxEditNodes == 4   \* nodes of a tree that is edited while it runs

NULL == 0           \* the null parent pointer / "none" sentinel
ROOT == 1           \* id of the root group the node graph is built with

MaxNodes == 1 + MaxSynths + MaxGroups   \* node ids are 1..MaxNodes
Nodes    == 1..MaxNodes
Workers == 1..NumWorkers

VARIABLES
    kind,           \* node id -> "none" | "synth" | "group" | "pgroup"
    alive,          \* node id -> storage not yet returned to the pool
    parent_,        \* server_node::parent_
    child_nodes,    \* abstract_group::child_nodes (ordered)
    child_synths_,  \* abstract_group::child_synths_
    child_groups_,  \* abstract_group::child_groups_
    use_count,      \* intrusive reference count of a node
    handle,         \* external handles the control layer holds on a node
    paused,         \* node id -> pause requested
    status,         \* "ok" | "aborted" (the process died) | "corrupt" (it runs
                    \* on with lists, counters or memory that no longer agree)
    last,           \* the last call that broke a precondition, and its outcome
    phase,          \* "edit" | "run"
    items,          \* synths that have an item in the compiled queue
    limit,          \* item -> compiled activation_limit
    succ,           \* item -> successor items
    skip,           \* item -> compiled as a pass-through (synth paused)
    count,          \* item -> activation counter at run time
    ready,          \* the ready set
    running,        \* worker -> item it executes, or NULL
    todo,           \* worker -> successors it still has to notify
    execs,          \* synth -> number of times its work ran this epoch
    passes,         \* item -> number of times a worker took it this epoch
    pushes,         \* item -> number of times a decrement pushed it
    done            \* items whose execution has completed this epoch

treeVars == <<kind, alive, parent_, child_nodes, child_synths_, child_groups_,
              use_count, handle>>
runVars  == <<phase, items, limit, succ, skip, count, ready, running, todo,
              execs, passes, pushes, done>>
vars     == <<treeVars, paused, status, last, runVars>>

\* ------------------------------------------------------------- node kinds
IsSynth(n)    == kind[n] = "synth"
IsGroup(n)    == kind[n] \in {"group", "pgroup"}
IsParallel(n) == kind[n] = "pgroup"


Range(s) == {s[i] : i \in 1..Len(s)}

Without(s, n) == SelectSeq(s, LAMBDA x : x # n)

\* ------------------------------------------------------------ the heap
\* The fields the tree operations read and write, passed through the
\* operations below as one record; fault records an access through a null
\* parent_ made on the way.
Heap == [kind |-> kind, parent_ |-> parent_, child_nodes |-> child_nodes,
         child_synths_ |-> child_synths_, child_groups_ |-> child_groups_,
         use_count |-> use_count, alive |-> alive, fault |-> FALSE]

\* server_node::is_synth / is_group
is_synth(h, n) == h.kind[n] = "synth"
is_group(h, n) == h.kind[n] \in {"group", "pgroup"}

RECURSIVE clear_parent(_, _), release(_, _), clear_and_dispose(_, _)

\* server_node::clear_parent. It does not test parent_: when parent_ is
\* null the decrement is an access through a null pointer (fault).
clear_parent(h, n) ==
    LET p  == h.parent_[n]
        h1 == IF p = NULL THEN [h EXCEPT !.fault = TRUE]
              ELSE IF is_synth(h, n)
              THEN [h EXCEPT !.child_synths_[p] = @ - 1]
              ELSE [h EXCEPT !.child_groups_[p] = @ - 1]
        h2 == [h1 EXCEPT !.parent_[n] = NULL]
    IN  release(h2, n)

\* intrusive release(): the count drops; at zero the node is destroyed, and
\* a destroyed group disposes of its children
release(h, n) ==
    LET h1 == [h EXCEPT !.use_count[n] = @ - 1]
    IN  IF h1.use_count[n] # 0 THEN h1
        ELSE LET h2 == [h1 EXCEPT !.alive[n] = FALSE]
             IN  IF is_group(h, n) THEN clear_and_dispose(h2, n) ELSE h2

\* child_nodes.clear_and_dispose(clear_parent): unlink each child in order
\* and call clear_parent on it
clear_and_dispose(h, g) ==
    IF h.child_nodes[g] = <<>> THEN h
    ELSE LET c  == Head(h.child_nodes[g])
             h1 == [h EXCEPT !.child_nodes[g] = Tail(@)]
         IN  clear_and_dispose(clear_parent(h1, c), g)

\* server_node::set_parent: the statements before the assertion
add_ref(h, n) == [h EXCEPT !.use_count[n] = @ + 1]

\* server_node::set_parent: the statements after the assertion
set_parent(h, n, parent) ==
    LET h1 == [add_ref(h, n) EXCEPT !.parent_[n] = parent]
    IN  IF is_synth(h, n)
        THEN [h1 EXCEPT !.child_synths_[parent] = @ + 1]
        ELSE [h1 EXCEPT !.child_groups_[parent] = @ + 1]

\* abstract_group::has_child
has_child(h, g, n) == h.parent_[n] = g

\* insertion of a node at the head or the tail of a child list
Insert(s, n, pos) == IF pos = "head" THEN <<n>> \o s ELSE Append(s, n)

\* groups reachable from g through child lists (g included)
RECURSIVE ReachFrom(_, _, _)
ReachFrom(h, S, k) ==
    IF k = 0 THEN S
    ELSE ReachFrom(h, S \cup UNION {Range(h.child_nodes[x]) : x \in S}, k - 1)

Subtree(h, g) == ReachFrom(h, {g}, MaxNodes)

\* g lies on, or leads into, a cycle of child lists
Cyclic(h, g) ==
    \E x \in Subtree(h, g) :
        x \in ReachFrom(h, Range(h.child_nodes[x]), MaxNodes)

\* abstract_group::free_synths_deep on an acyclic subtree
RECURSIVE dispose_synths(_, _, _), free_synths_deep(_, _), deep_each(_, _)
dispose_synths(h, g, s) ==
    IF s = <<>> THEN h
    ELSE LET c == Head(s)
         IN  IF is_synth(h, c)
             THEN dispose_synths(
                      clear_parent([h EXCEPT !.child_nodes[g] = Without(@, c)], c),
                      g, Tail(s))
             ELSE dispose_synths(h, g, Tail(s))

deep_each(h, s) ==
    IF s = <<>> THEN h ELSE deep_each(free_synths_deep(h, Head(s)), Tail(s))

free_synths_deep(h, g) ==
    LET h1 == dispose_synths(h, g, h.child_nodes[g])
    IN  deep_each(h1, h1.child_nodes[g])

\* ----------------------------------------------------------- the state
Call(op, err) == [op |-> op, err |-> err]
NoCall == Call("none", "none")

Fresh == IF \E n \in Nodes : kind[n] = "none"
         THEN CHOOSE n \in Nodes : kind[n] = "none" /\ \A m \in 1..(n - 1) : kind[m] # "none"
         ELSE NULL

TreeInit ==
    /\ kind = [n \in Nodes |-> IF n = ROOT THEN "group" ELSE "none"]
    /\ alive = [n \in Nodes |-> n = ROOT]
    /\ parent_ = [n \in Nodes |-> NULL]
    /\ child_nodes = [n \in Nodes |-> <<>>]
    /\ child_synths_ = [n \in Nodes |-> 0]
    /\ child_groups_ = [n \in Nodes |-> 0]
    /\ use_count = [n \in Nodes |-> IF n = ROOT THEN 1 ELSE 0]
    /\ handle = [n \in Nodes |-> IF n = ROOT THEN 1 ELSE 0]
    /\ paused = [n \in Nodes |-> FALSE]
    /\ status = "ok"
    /\ last = NoCall

RunIdle ==
    /\ phase = "edit"
    /\ items = {}
    /\ limit = [n \in Nodes |-> 0]
    /\ succ = [n \in Nodes |-> {}]
    /\ skip = [n \in Nodes |-> FALSE]
    /\ count = [n \in Nodes |-> 0]
    /\ ready = {}
    /\ running = [w \in Workers |-> NULL]
    /\ todo = [w \in Workers |-> {}]
    /\ execs = [n \in Nodes |-> 0]
    /\ passes = [n \in Nodes |-> 0]
    /\ pushes = [n \in Nodes |-> 0]
    /\ done = {}

Init == TreeInit /\ RunIdle

SetHeap(h) ==
    /\ parent_' = h.parent_
    /\ child_nodes' = h.child_nodes
    /\ child_synths_' = h.child_synths_
    /\ child_groups_' = h.child_groups_
    /\ use_count' = h.use_count
    /\ alive' = h.alive

\* ------------------------------------------------ control-layer operations
\* the node factory: a new node, held by the handle of its creator
Create(k) ==
    /\ status = "ok"
    /\ Fresh # NULL /\ Fresh <= MaxTreeNodes
    /\ kind' = [kind EXCEPT ![Fresh] = k]
    /\ alive' = [alive EXCEPT ![Fresh] = TRUE]
    /\ use_count' = [use_count EXCEPT ![Fresh] = 1]
    /\ handle' = [handle EXCEPT ![Fresh] = 1]
    /\ last' = NoCall
    /\ UNCHANGED <<parent_, child_nodes, child_synths_, child_groups_,
                   paused, status, runVars>>

\* the control layer drops its handle on a node
ReleaseHandle(n) ==
    /\ status = "ok"
    /\ alive[n] /\ handle[n] = 1
    /\ handle' = [handle EXCEPT ![n] = 0]
    /\ SetHeap(release(Heap, n))
    /\ last' = NoCall
    /\ UNCHANGED <<kind, paused, status, runVars>>

\* an assert() whose condition is cond: it passes, or, when it fails, the
\* process aborts (assertions compiled in) or runs on (NDEBUG)
AssertOutcomes(cond) == IF cond THEN {"ok"} ELSE {"aborted", "corrupt"}

\* abstract_group::add_child(node, head | tail): link the node into the
\* child list, then server_node::set_parent
AddChild(g, n, pos) ==
    /\ status = "ok"
    /\ alive[g] /\ alive[n] /\ IsGroup(g)
    /\ \E out \in AssertOutcomes(parent_[n] = NULL) :
       LET h0 == [Heap EXCEPT !.child_nodes[g] = Insert(@, n, pos)] IN
       /\ status' = out
       /\ CASE out = "ok" ->
                 /\ SetHeap(set_parent(h0, n, g))
                 /\ last' = NoCall
            [] out = "aborted" ->
                 \* add_ref() has run when the assertion aborts the
                 \* process; the memory of a dead process is not modelled
                 /\ UNCHANGED <<parent_, child_nodes, child_synths_,
                                child_groups_, use_count, alive>>
                 /\ last' = Call("add_child", "assert")
            [] out = "corrupt" ->
                 \* set_parent runs to its end. Linking an already linked
                 \* list hook is undefined: the old list may or may not
                 \* still reach the node.
                 \E keep \in BOOLEAN :
                    LET old == parent_[n]
                        h1  == IF keep \/ old = g THEN h0
                               ELSE [h0 EXCEPT !.child_nodes[old] = Without(@, n)]
                    IN  /\ SetHeap(set_parent(h1, n, g))
                        /\ last' = Call("add_child", "none")
    /\ UNCHANGED <<kind, handle, paused, runVars>>

\* server_node::set_parent called on a node that add_child has not linked
\* into the list of the group: the reference is added, the assertion is
\* tested, parent_ is set and the group's counter rises, while no list
\* changes, so the group counts a node its list does not hold.
SetParentUnlinked(n, g) ==
    /\ status = "ok"
    /\ alive[g] /\ alive[n] /\ IsGroup(g)
    /\ \E out \in AssertOutcomes(parent_[n] = NULL) :
       IF out = "aborted"
       THEN /\ status' = "aborted"
            /\ last' = Call("set_parent_unlinked", "assert")
            /\ UNCHANGED <<parent_, child_nodes, child_synths_,
                           child_groups_, use_count, alive>>
       ELSE /\ status' = "corrupt"
            /\ last' = Call("set_parent_unlinked", "none")
            /\ SetHeap(set_parent(Heap, n, g))
    /\ UNCHANGED <<kind, handle, paused, runVars>>

\* abstract_group::remove_child
RemoveChild(g, n) ==
    /\ status = "ok"
    /\ alive[g] /\ alive[n] /\ IsGroup(g)
    /\ IF ~has_child(Heap, g, n)
       THEN \* NotAChild is reported and nothing changes
            /\ last' = NoCall
            /\ UNCHANGED treeVars
       ELSE /\ SetHeap(clear_parent([Heap EXCEPT !.child_nodes[g] = Without(@, n)], n))
            /\ last' = NoCall
            /\ UNCHANGED <<kind, handle>>
    /\ UNCHANGED <<paused, status, runVars>>

\* server_node::clear_parent called on a node whose parent_ is null: the
\* decrement goes through a null pointer, which is undefined. The process
\* either dies on the access or runs on to parent_ = 0 and release().
ClearParentDetached(n) ==
    /\ status = "ok"
    /\ alive[n] /\ parent_[n] = NULL
    /\ \/ /\ status' = "aborted"
          /\ last' = Call("clear_parent", "segv")
          /\ UNCHANGED treeVars
       \/ /\ status' = "corrupt"
          /\ last' = Call("clear_parent", "none")
          /\ SetHeap(release(Heap, n))
          /\ UNCHANGED <<kind, handle>>
    /\ UNCHANGED <<paused, runVars>>

\* server_node::clear_parent called on a node that has a parent and is
\* still linked in the parent's list (remove_child and the disposers unlink
\* the node first). The parent's counter drops, parent_ becomes null and the
\* reference is released, while the list is left alone. A node that
\* survives stays in the list of a group that no longer counts it. A node
\* that is destroyed leaves the list when its list hook is destroyed; a
\* destroyed group that reaches itself among the children it disposes of
\* calls clear_parent on its null parent_, which is undefined: the process
\* dies on the access or runs on.
ClearParentLinked(n) ==
    /\ status = "ok"
    /\ alive[n] /\ parent_[n] # NULL
    /\ LET h == clear_parent(Heap, n)
           u == IF h.alive[n] THEN h
                ELSE [h EXCEPT !.child_nodes = [g \in Nodes |-> Without(@[g], n)]]
       IN  IF h.fault
           THEN \/ /\ status' = "aborted"
                   /\ last' = Call("clear_parent_linked", "segv")
                   /\ UNCHANGED <<parent_, child_nodes, child_synths_,
                                  child_groups_, use_count, alive>>
                \/ /\ status' = "corrupt"
                   /\ last' = Call("clear_parent_linked", "none")
                   /\ SetHeap(u)
           ELSE /\ SetHeap(u)
                /\ status' = (IF h.alive[n] THEN "corrupt" ELSE "ok")
                /\ last' = (IF h.alive[n] THEN Call("clear_parent_linked", "none")
                                          ELSE NoCall)
    /\ UNCHANGED <<kind, handle, paused, runVars>>

\* abstract_group::free_children. When the group is its own descendant and
\* the disposer releases the last reference to it, the group is destroyed
\* while clear_and_dispose still works on its list, and the call goes on
\* with the freed object, which is undefined: the process dies, or runs on
\* with what the freed memory holds.
FreeChildren(g) ==
    /\ status = "ok"
    /\ alive[g] /\ IsGroup(g)
    /\ LET h == clear_and_dispose(Heap, g) IN
       IF ~h.alive[g]
       THEN \/ /\ status' = "aborted"
               /\ last' = Call("free_children", "segv")
               /\ UNCHANGED <<parent_, child_nodes, child_synths_,
                              child_groups_, use_count, alive>>
            \/ /\ status' = "corrupt"
               /\ last' = Call("free_children", "none")
               /\ SetHeap(h)
       ELSE /\ SetHeap(h)
            /\ status' \in AssertOutcomes(h.child_synths_[g] = 0 /\ h.child_groups_[g] = 0)
            /\ last' = NoCall
    /\ UNCHANGED <<kind, handle, paused, runVars>>

\* abstract_group::free_synths_deep; on a cyclic subtree the recursion
\* never returns and the stack overflows
FreeSynthsDeep(g) ==
    /\ status = "ok"
    /\ alive[g] /\ IsGroup(g)
    /\ IF Cyclic(Heap, g)
       THEN /\ status' = "aborted"
            /\ last' = Call("free_synths_deep", "overflow")
            /\ UNCHANGED treeVars
       ELSE LET h == free_synths_deep(Heap, g) IN
            /\ SetHeap(h)
            /\ status' \in AssertOutcomes(
                   \A x \in Subtree(Heap, g) : IsGroup(x) => h.child_synths_[x] = 0)
            /\ last' = NoCall
            /\ UNCHANGED <<kind, handle>>
    /\ UNCHANGED <<paused, runVars>>

\* The tree operations never read is_parallel_, so the mutation model
\* creates synths and sequential groups.
TreeKinds == {"synth", "group"}

Created == {n \in Nodes : kind[n] # "none"}

TreeNext ==
    \/ \E k \in TreeKinds : Create(k)
    \/ \E n \in Created : ReleaseHandle(n)
    \/ \E g \in Created, n \in Created, pos \in {"head", "tail"} : AddChild(g, n, pos)
    \/ \E g \in Created, n \in Created : RemoveChild(g, n)
    \/ \E n \in Created : ClearParentDetached(n)
    \/ \E n \in Created : ClearParentLinked(n)
    \/ \E n \in Created, g \in Created : SetParentUnlinked(n, g)
    \/ \E g \in Created : FreeChildren(g)
    \/ \E g \in Created : FreeSynthsDeep(g)

\* --------------------------------------------------------- sibling lookup
\* the result of a lookup: a node or the null sentinel, or an error
Found(m) == [err |-> "none", node |-> m]
Failed(e) == [err |-> e, node |-> NULL]

\* what a call through a null parent_ can do: die on the access, or go on
\* with whatever the address holds
NullDeref == {Failed("segv")} \cup {Found(m) : m \in Nodes \cup {NULL}}

\* server_node_list::s_iterator_to(*node): the place of n in the list s
iterator_to(s, n) == CHOOSE i \in 1..Len(s) : s[i] = n

\* abstract_group::next_node
next_node(g, n) ==
    LET next == iterator_to(child_nodes[g], n) + 1
    IN  IF next > Len(child_nodes[g]) THEN NULL ELSE child_nodes[g][next]

\* abstract_group::previous_node
previous_node(g, n) ==
    LET it == iterator_to(child_nodes[g], n)
    IN  IF it = 1 THEN NULL ELSE child_nodes[g][it - 1]

\* server_node::next_node: the outcomes of parent_->next_node(this)
server_next_node(n) ==
    IF parent_[n] = NULL THEN NullDeref ELSE {Found(next_node(parent_[n], n))}

\* server_node::previous_node: the outcomes of parent_->previous_node(this)
server_previous_node(n) ==
    IF parent_[n] = NULL THEN NullDeref ELSE {Found(previous_node(parent_[n], n))}

\* ------------------------------------------------------------ deep queries
RECURSIVE has_synth_scan(_, _), has_synth_children(_), deep_sum(_, _), child_count_deep(_)

\* the loop of has_synth_children over children s[i..]
has_synth_scan(s, i) ==
    IF i > Len(s) THEN FALSE
    ELSE IF IsSynth(s[i]) THEN TRUE
    ELSE IF has_synth_children(s[i]) THEN TRUE
    ELSE has_synth_scan(s, i + 1)

\* abstract_group::has_synth_children
has_synth_children(g) == has_synth_scan(child_nodes[g], 1)

\* abstract_group::child_count: the cached counts
child_count(g) == child_synths_[g] + child_groups_[g]

\* the loop of child_count_deep over children s[i..]: the counts of the
\* child groups, added up
deep_sum(s, i) ==
    IF i > Len(s) THEN <<0, 0>>
    ELSE LET rest == deep_sum(s, i + 1) IN
         IF IsGroup(s[i])
         THEN LET r == child_count_deep(s[i])
              IN  <<rest[1] + r[1], rest[2] + r[2]>>
         ELSE rest

\* abstract_group::child_count_deep: <<synths, groups>>
child_count_deep(g) ==
    LET below == deep_sum(child_nodes[g], 1)
    IN  <<child_synths_[g] + below[1], child_groups_[g] + below[2]>>

\* ------------------------------------------------------------ tail counts
empty(g) == child_nodes[g] = <<>>

RECURSIVE tail_nodes(_), scan_tail(_, _), sum_tail(_, _)

\* the loop of group::tail_nodes without the test for an empty child group
scan_tail_no_skip(s, i) ==
    IF i = 0 THEN 0
    ELSE IF IsSynth(s[i]) THEN 1
    ELSE tail_nodes(s[i])

\* the loop of group::tail_nodes: children s[i], s[i-1], ..., s[1]
scan_tail(s, i) ==
    IF i = 0 THEN 0
    ELSE IF IsSynth(s[i]) THEN 1
    ELSE IF ~empty(s[i]) THEN tail_nodes(s[i])
    ELSE scan_tail(s, i - 1)

\* group::tail_nodes
group_tail_nodes(g) ==
    IF empty(g) THEN 0 ELSE scan_tail(child_nodes[g], Len(child_nodes[g]))

\* the sum of the tail counts of children s[1..i]
sum_tail(s, i) ==
    IF i = 0 THEN 0
    ELSE sum_tail(s, i - 1) + (IF IsSynth(s[i]) THEN 1 ELSE tail_nodes(s[i]))

\* parallel_group::tail_nodes
parallel_tail_nodes(g) == sum_tail(child_nodes[g], Len(child_nodes[g]))

\* abstract_group::tail_nodes (virtual)
tail_nodes(g) ==
    IF IsParallel(g) THEN parallel_tail_nodes(g) ELSE group_tail_nodes(g)

\* ------------------------------------------------------------ compilation
\* A queue under construction: its items, their activation limits, their
\* successor lists and their pass-through flags.
EmptyQueue == [items |-> {}, limit |-> [n \in Nodes |-> 0],
               succ |-> [n \in Nodes |-> {}], skip |-> [n \in Nodes |-> FALSE]]

\* a new item for synth c that waits for lim completions; every item of
\* preds gets it as a successor
add_item(q, c, preds, lim) ==
    [items |-> q.items \cup {c},
     limit |-> [q.limit EXCEPT ![c] = lim],
     succ  |-> [n \in Nodes |-> IF n \in preds THEN q.succ[n] \cup {c} ELSE q.succ[n]],
     skip  |-> [q.skip EXCEPT ![c] = paused[c]]]

RECURSIVE fill_queue_recursive(_, _, _, _), fill_seq(_, _, _, _, _, _), fill_par(_, _, _, _, _, _)

\* group::fill_queue_recursive over children s[i..]: dangling is the set of
\* items still needing a successor, lim the activation limit of what comes
\* next, own the tail set of the part of this group compiled so far
fill_seq(q, s, i, dangling, lim, own) ==
    IF i > Len(s) THEN [q |-> q, tails |-> own]
    ELSE LET c == s[i] IN
         IF IsSynth(c)
         THEN fill_seq(add_item(q, c, dangling, lim), s, i + 1, {c}, 1, {c})
         ELSE LET r  == fill_queue_recursive(q, c, dangling, lim)
                  tn == tail_nodes(c)
              IN  fill_seq(r.q, s, i + 1,
                           IF r.tails = {} THEN dangling ELSE r.tails,
                           IF tn = 0 THEN lim ELSE tn,
                           IF r.tails = {} THEN own ELSE r.tails)

\* parallel_group::fill_queue_recursive over children s[i..]: every child
\* gets the group's own predecessors and activation limit
fill_par(q, s, i, preds, lim, own) ==
    IF i > Len(s) THEN [q |-> q, tails |-> own]
    ELSE LET c == s[i] IN
         IF IsSynth(c)
         THEN fill_par(add_item(q, c, preds, lim), s, i + 1, preds, lim, own \cup {c})
         ELSE LET r == fill_queue_recursive(q, c, preds, lim)
              IN  fill_par(r.q, s, i + 1, preds, lim, own \cup r.tails)

\* abstract_group::fill_queue_recursive (virtual)
fill_queue_recursive(q, g, preds, lim) ==
    IF IsParallel(g)
    THEN fill_par(q, child_nodes[g], 1, preds, lim, {})
    ELSE fill_seq(q, child_nodes[g], 1, preds, lim, {})

\* group::fill_queue on the root
compile == fill_queue_recursive(EmptyQueue, ROOT, {}, 0).q

\* ------------------------------------------------- building a tree to run
RECURSIVE Depth(_)
Depth(n) == IF parent_[n] = NULL THEN 0 ELSE 1 + Depth(parent_[n])

\* g is the root or the last child of a group on the rightmost path, so
\* that nodes get their ids in preorder
RECURSIVE OnSpine(_)
OnSpine(g) ==
    \/ g = ROOT
    \/ /\ parent_[g] # NULL
       /\ child_nodes[parent_[g]][Len(child_nodes[parent_[g]])] = g
       /\ OnSpine(parent_[g])

Synths == {n \in Nodes : IsSynth(n)}

\* the node factory followed by add_child(node, tail)
Build(k, g) ==
    /\ status = "ok" /\ phase = "edit"
    /\ Fresh # NULL
    /\ IsGroup(g) /\ OnSpine(g) /\ Depth(g) < MaxDepth
    /\ k = "synth" => Cardinality(Synths) < MaxSynths
    /\ k # "synth" => Cardinality({m \in Nodes : IsGroup(m)}) <= MaxGroups
    /\ LET n  == Fresh
           h0 == [Heap EXCEPT !.kind[n] = k, !.use_count[n] = 1, !.alive[n] = TRUE,
                              !.child_nodes[g] = Insert(@, n, "tail")]
       IN  /\ kind' = [kind EXCEPT ![n] = k]
           /\ handle' = [handle EXCEPT ![n] = 1]
           /\ SetHeap(set_parent(h0, n, g))
    /\ UNCHANGED <<paused, status, last, runVars>>

\* ------------------------------------------------------------ pause/resume
RECURSIVE SynthsBelow(_)
SynthsBelow(n) ==
    IF IsSynth(n) THEN {n}
    ELSE UNION {SynthsBelow(child_nodes[n][i]) : i \in 1..Len(child_nodes[n])}

\* synth pause(); abstract_group::pause sets it on the children
Pause(n) ==
    /\ status = "ok"
    /\ alive[n] /\ n # ROOT
    /\ Cardinality({m \in Nodes : paused[m]}) < MaxPaused
    /\ SynthsBelow(n) # {}
    /\ paused' = [m \in Nodes |-> paused[m] \/ m \in SynthsBelow(n)]
    /\ UNCHANGED <<treeVars, status, last, runVars>>

\* synth resume(); abstract_group::resume sets it on the children
Resume(n) ==
    /\ status = "ok"
    /\ alive[n] /\ n # ROOT
    /\ \E m \in SynthsBelow(n) : paused[m]
    /\ paused' = [m \in Nodes |-> paused[m] /\ m \notin SynthsBelow(n)]
    /\ UNCHANGED <<treeVars, status, last, runVars>>

\* ------------------------------------------------------- running a queue
Idle == \A w \in Workers : running[w] = NULL

\* compile(root): the queue of the next block
Compile ==
    /\ status = "ok" /\ phase = "edit"
    /\ LET q == compile IN
       /\ items' = q.items
       /\ limit' = q.limit
       /\ succ' = q.succ
       /\ skip' = q.skip
       /\ count' = q.limit
       /\ ready' = {i \in q.items : q.limit[i] = 0}
    /\ phase' = "run"
    /\ running' = [w \in Workers |-> NULL]
    /\ todo' = [w \in Workers |-> {}]
    /\ execs' = [n \in Nodes |-> 0]
    /\ passes' = [n \in Nodes |-> 0]
    /\ pushes' = [n \in Nodes |-> 0]
    /\ done' = {}
    /\ UNCHANGED <<treeVars, paused, status, last>>

\* a worker takes an item from the ready set (the workers are alike: of
\* the idle ones, the first takes it)
Take(w, i) ==
    /\ phase = "run" /\ running[w] = NULL /\ i \in ready
    /\ \A v \in 1..(w - 1) : running[v] # NULL
    /\ ready' = ready \ {i}
    /\ running' = [running EXCEPT ![w] = i]
    /\ passes' = [passes EXCEPT ![i] = @ + 1]
    /\ UNCHANGED <<treeVars, paused, status, last, phase, items, limit, succ,
                   skip, count, todo, execs, pushes, done>>

\* the worker's item has run (a pass-through runs no synth); the worker
\* now has the item's successors to notify
Complete(w) ==
    /\ phase = "run" /\ running[w] # NULL /\ running[w] \notin done
    /\ LET i == running[w] IN
       /\ execs' = [execs EXCEPT ![i] = IF skip[i] THEN @ ELSE @ + 1]
       /\ done' = done \cup {i}
       /\ todo' = [todo EXCEPT ![w] = succ[i]]
       /\ running' = [running EXCEPT ![w] = IF succ[i] = {} THEN NULL ELSE i]
    /\ UNCHANGED <<treeVars, paused, status, last, phase, items, limit, succ,
                   skip, count, ready, passes, pushes>>

\* the decrement that makes an activation counter zero
reaches_zero(c) == c - 1 = 0

\* one atomic decrement of a successor's activation counter; the decrement
\* that reaches zero pushes the successor to the ready set
Notify(w, s) ==
    /\ phase = "run" /\ running[w] # NULL /\ s \in todo[w]
    /\ count' = [count EXCEPT ![s] = @ - 1]
    /\ ready' = IF reaches_zero(count[s]) THEN ready \cup {s} ELSE ready
    /\ pushes' = [pushes EXCEPT ![s] = IF reaches_zero(count[s]) THEN @ + 1 ELSE @]
    /\ todo' = [todo EXCEPT ![w] = @ \ {s}]
    /\ running' = [running EXCEPT ![w] = IF todo[w] = {s} THEN NULL ELSE @]
    /\ UNCHANGED <<treeVars, paused, status, last, phase, items, limit, succ,
                   skip, execs, passes, done>>

Exhausted == phase = "run" /\ ready = {} /\ Idle

\* the block is over: the queue is discarded
EndBlock ==
    /\ Exhausted
    /\ phase' = "edit"
    /\ items' = {}
    /\ limit' = [n \in Nodes |-> 0]
    /\ succ' = [n \in Nodes |-> {}]
    /\ skip' = [n \in Nodes |-> FALSE]
    /\ count' = [n \in Nodes |-> 0]
    /\ ready' = {}
    /\ execs' = [n \in Nodes |-> 0]
    /\ passes' = [n \in Nodes |-> 0]
    /\ pushes' = [n \in Nodes |-> 0]
    /\ done' = {}
    /\ UNCHANGED <<running, todo>>
    /\ UNCHANGED <<treeVars, paused, status, last>>

Drain ==
    \/ Compile
    \/ \E w \in Workers, i \in Nodes : Take(w, i)
    \/ \E w \in Workers : Complete(w)
    \/ \E w \in Workers, s \in Nodes : Notify(w, s)
    \/ EndBlock

RunNext ==
    \/ \E k \in {"synth", "group", "pgroup"}, g \in Created : Build(k, g)
    \/ Drain

PauseNext ==
    \/ \E k \in {"synth", "group"}, g \in Created : Build(k, g)
    \/ \E n \in Created : Pause(n)
    \/ \E n \in Created : Resume(n)
    \/ Drain

\* the control thread at work while blocks are compiled and run: it adds
\* a node at the tail of a group, removes nodes and drops handles
Grow(k, g) ==
    /\ Fresh # NULL /\ Fresh <= MaxEditNodes
    /\ alive[g]
    /\ Build(k, g)

EditNext ==
    \/ \E k \in {"synth", "group", "pgroup"}, g \in Created : Grow(k, g)
    \/ \E n \in Created : ReleaseHandle(n)
    \/ \E g \in Created, n \in Created : RemoveChild(g, n)
    \/ \E g \in Created : FreeChildren(g)
    \/ \E g \in Created : FreeSynthsDeep(g)
    \/ Drain

\* remove_child on an empty sequential group, between two blocks
Prune(e) ==
    /\ phase = "edit"
    /\ kind[e] = "group" /\ empty(e) /\ parent_[e] # NULL
    /\ RemoveChild(parent_[e], e)

PruneNext ==
    \/ \E k \in {"synth", "group", "pgroup"}, g \in Created : Build(k, g)
    \/ \E e \in Created : Prune(e)

Next == TreeNext

Spec == Init /\ [][Next]_vars

\* a tree is built in preorder, compiled and drained, block after block
SpecRun == Init /\ [][RunNext]_vars

\* the same for trees of sequential groups, with nodes paused and resumed
\* at any time
SpecPause == Init /\ [][PauseNext]_vars

\* a tree that the control thread edits at any time, between and during
\* the blocks
SpecEdit == Init /\ [][EditNext]_vars

\* trees built in preorder from which empty sequential groups are removed
SpecPrune == Init /\ [][PruneNext]_vars

\* ------------------------------------------------------------------ claims
Groups      == {g \in Nodes : IsGroup(g)}
Runnable(i) == i \in ready \/ (\E w \in Workers : running[w] = i) \/ i \in done
Preds(i)    == {p \in items : i \in succ[p]}
Children(g) == child_nodes[g]

\* C1: when the queue compiled from a tree is exhausted, every synth of the
\* tree has been taken and run exactly once, and no item is left with a
\* non-zero activation counter.
C1_EverySynthOnce ==
    Exhausted =>
        \A n \in Synths :
            n \in items /\ passes[n] = 1 /\ execs[n] = 1 /\ count[n] = 0

\* C2: in a sequential group, no item compiled from child i+1 is runnable
\* (ready, running or done) before every item compiled from child i is done.
C2_SequentialOrder ==
    phase = "run" =>
        \A g \in Groups : ~IsParallel(g) =>
            \A i \in 1..(Len(Children(g)) - 1) :
                \A a \in SynthsBelow(Children(g)[i]), b \in SynthsBelow(Children(g)[i + 1]) :
                    Runnable(b) => a \in done

\* C3: no item of a child of a parallel group is a successor of an item of
\* a sibling, and an item of a node that follows a parallel group in a
\* sequential group is not runnable before every item of the parallel group
\* is done.
C3_ParallelGroup ==
    phase = "run" =>
        /\ \A g \in Groups : IsParallel(g) =>
               \A i, j \in 1..Len(Children(g)) : i # j =>
                   \A a \in SynthsBelow(Children(g)[i]), b \in SynthsBelow(Children(g)[j]) :
                       b \notin succ[a]
        /\ \A g \in Groups : ~IsParallel(g) =>
               \A i, j \in 1..Len(Children(g)) :
                   (i < j /\ IsParallel(Children(g)[i])) =>
                       \A a \in SynthsBelow(Children(g)[i]), b \in SynthsBelow(Children(g)[j]) :
                           Runnable(b) => a \in done

\* C4: in every state the program runs on from after add_child,
\* remove_child, free_children and free_synths_deep (set_parent and
\* clear_parent called without the list operation that goes with them are
\* none of these), every group's child_synths_ and child_groups_ are the
\* numbers of synths and of groups in its child_nodes, and their sum is the
\* length of child_nodes.
C4_CountsMatchChildren ==
    (status # "aborted" /\ last.op \notin {"set_parent_unlinked", "clear_parent_linked"}) =>
        \A g \in Groups : alive[g] =>
            /\ child_synths_[g] + child_groups_[g] = Len(Children(g))
            /\ child_synths_[g] = Cardinality({i \in 1..Len(Children(g)) : IsSynth(Children(g)[i])})
            /\ child_groups_[g] = Cardinality({i \in 1..Len(Children(g)) : IsGroup(Children(g)[i])})

\* C5: clear_parent on a node without a parent is not an error and changes
\* neither the node's parent, nor any reference count, nor any group's
\* child counts.
C5_DetachDetachedIsNoOp ==
    [][last'.op = "clear_parent" =>
          /\ status' = "ok"
          /\ parent_' = parent_
          /\ use_count' = use_count
          /\ child_synths_' = child_synths_
          /\ child_groups_' = child_groups_]_vars

\* C6: attaching a node that already has a parent fails with
\* InvariantViolation and leaves the parents, the reference counts, the
\* child lists and the child counts as they were.
C6_DoubleAttachRejected ==
    [][last'.op = "add_child" =>
          /\ last'.err = "InvariantViolation"
          /\ status' = "ok"
          /\ parent_' = parent_
          /\ use_count' = use_count
          /\ child_nodes' = child_nodes
          /\ child_synths_' = child_synths_
          /\ child_groups_' = child_groups_]_vars

\* the groups above n, following parent_ at most k times
RECURSIVE Ancestors(_, _)
Ancestors(n, k) ==
    IF k = 0 \/ parent_[n] = NULL THEN {}
    ELSE {parent_[n]} \cup Ancestors(parent_[n], k - 1)

\* C7: as long as no call has broken an assertion, the nodes form a forest:
\* a node is in the child list of its parent_ once and in no other, and no
\* node is its own ancestor.
C7_Forest ==
    status = "ok" =>
        \A n \in Nodes : alive[n] =>
            /\ \A g \in Groups :
                   Cardinality({i \in 1..Len(Children(g)) : Children(g)[i] = n})
                       = (IF parent_[n] = g THEN 1 ELSE 0)
            /\ n \notin Ancestors(n, MaxNodes)

\* the children of g that the scan of tail_nodes does not skip
NotSkipped(g) ==
    {i \in 1..Len(Children(g)) : IsSynth(Children(g)[i]) \/ ~empty(Children(g)[i])}

Last(S) == CHOOSE i \in S : \A j \in S : j <= i

\* C8: tail_nodes() of a sequential group is 0 when every child is an empty
\* group (or there is none); otherwise it is 1 when the last child that is
\* not an empty group is a synth, and that group's tail_nodes() when it is
\* a group.
C8_TailOfLastNonEmptyChild ==
    \A g \in Groups : ~IsParallel(g) =>
        group_tail_nodes(g) =
            IF NotSkipped(g) = {} THEN 0
            ELSE LET c == Children(g)[Last(NotSkipped(g))]
                 IN  IF IsSynth(c) THEN 1 ELSE tail_nodes(c)

\* C8 witness: a compiled sequential group that ends in an empty group and
\* takes its tail count of 1 from a synth before it, next to one that takes
\* its tail count of 2 from a trailing parallel group.
C8_Witness ==
    /\ phase = "run"
    /\ \E g \in Groups :
           /\ ~IsParallel(g) /\ Len(Children(g)) >= 2
           /\ IsGroup(Children(g)[Len(Children(g))])
           /\ empty(Children(g)[Len(Children(g))])
           /\ group_tail_nodes(g) = 1
    /\ \E g \in Groups :
           /\ ~IsParallel(g) /\ ~empty(g)
           /\ IsParallel(Children(g)[Len(Children(g))])
           /\ group_tail_nodes(g) = 2

\* the synths of a compiled sequential group that are not passed through
Working(n) == {a \in SynthsBelow(n) : a \in items /\ ~skip[a]}

\* C9: an item compiled as a pass-through never runs its synth; a block runs
\* to its end with the items it was compiled with, each taken once and each
\* working item run once, whatever is paused meanwhile; and in a sequential
\* group that holds a paused synth, the working items of a later child are
\* not runnable before those of an earlier child are done.
C9_PauseAtNextCompile ==
    /\ \A i \in items : skip[i] => execs[i] = 0
    /\ Exhausted => \A i \in Synths :
           i \in items /\ passes[i] = 1 /\ execs[i] = (IF skip[i] THEN 0 ELSE 1)
    /\ phase = "run" =>
           \A g \in Groups :
               (\E k \in 1..Len(Children(g)) : Children(g)[k] \in items /\ skip[Children(g)[k]]) =>
                   \A i, j \in 1..Len(Children(g)) : i < j =>
                       \A a \in Working(Children(g)[i]), b \in Working(Children(g)[j]) :
                           Runnable(b) => a \in done

\* C10: an item that several items have as their successor is pushed by at
\* most one decrement, is taken at most once, and is not runnable before
\* all of its predecessors are done.
C10_PushedOnceAfterAllPredecessors ==
    \A s \in items : Cardinality(Preds(s)) >= 2 =>
        /\ pushes[s] <= 1
        /\ passes[s] <= 1
        /\ Runnable(s) => Preds(s) \subseteq done

\* C13: free_children() returns and leaves the group with an empty child
\* list and both counts zero; every former direct child has a null parent
\* and a reference count one lower than before the call.
C13_FreeChildrenReleasesAll ==
    [][\A g \in Created : FreeChildren(g) =>
          /\ status' = "ok"
          /\ child_nodes'[g] = <<>>
          /\ child_synths_'[g] = 0
          /\ child_groups_'[g] = 0
          /\ \A c \in Range(child_nodes[g]) :
                 /\ parent_'[c] = NULL
                 /\ use_count'[c] = use_count[c] - 1]_vars

\* the groups among the children of x, in their order
GroupsIn(s) == SelectSeq(s, LAMBDA c : IsGroup(c))

\* C14: free_synths_deep() returns, and then no group of the subtree has a
\* synth child or a non-zero child_synths_; every group keeps its parent,
\* its child_groups_ and the order of its child groups; a synth outside the
\* subtree keeps its parent and its reference count.
C14_FreeSynthsDeepKeepsGroups ==
    [][\A g \in Created : FreeSynthsDeep(g) =>
          /\ status' = "ok"
          /\ \A x \in Subtree(Heap, g) : IsGroup(x) =>
                 /\ child_synths_'[x] = 0
                 /\ \A i \in 1..Len(child_nodes'[x]) : ~IsSynth(child_nodes'[x][i])
          /\ \A x \in Groups :
                 /\ alive'[x] = alive[x]
                 /\ parent_'[x] = parent_[x]
                 /\ use_count'[x] = use_count[x]
                 /\ child_groups_'[x] = child_groups_[x]
                 /\ GroupsIn(child_nodes'[x]) = GroupsIn(child_nodes[x])
          /\ \A n \in Synths : n \notin Subtree(Heap, g) =>
                 /\ alive'[n] = alive[n]
                 /\ parent_'[n] = parent_[n]
                 /\ use_count'[n] = use_count[n]]_vars

\* C15: next_node()/previous_node() of an attached node yield the sibling
\* right after/before it in the parent's list, or 0 at the end/start, and
\* previous_node() undoes next_node(); on a node without a parent both fail
\* with NotAttached.
C15_SiblingLookup ==
    status = "ok" =>
        \A n \in Created : alive[n] =>
            IF parent_[n] = NULL
            THEN /\ server_next_node(n) = {Failed("NotAttached")}
                 /\ server_previous_node(n) = {Failed("NotAttached")}
            ELSE LET s == child_nodes[parent_[n]] IN
                 \E i \in 1..Len(s) :
                    /\ s[i] = n
                    /\ server_next_node(n) = {Found(IF i = Len(s) THEN NULL ELSE s[i + 1])}
                    /\ server_previous_node(n) = {Found(IF i = 1 THEN NULL ELSE s[i - 1])}
                    /\ i < Len(s) => server_previous_node(s[i + 1]) = {Found(n)}

\* the nodes below g
Below(g) == Subtree(Heap, g) \ {g}

\* C19: on every group the program can reach and run on, child_count_deep()
\* returns the number of synths and the number of groups below the group,
\* and has_synth_children() is true exactly when the first number is not 0.
C19_DeepCounts ==
    status # "aborted" =>
        \A g \in Groups : alive[g] =>
            /\ ~Cyclic(Heap, g)
            /\ child_count_deep(g) = <<Cardinality({n \in Below(g) : IsSynth(n)}),
                                       Cardinality({n \in Below(g) : IsGroup(n)})>>
            /\ has_synth_children(g) <=> child_count_deep(g)[1] > 0
            /\ child_count(g) = Len(child_nodes[g])

\* C16: in a compiled queue the activation limit of every item is the
\* number of items that have it in their successor list.
C16_LimitCountsPredecessors ==
    phase = "run" =>
        \A i \in items : limit[i] = Cardinality(Preds(i))

\* the tail count and the tail set of one child
TailCount(c) == IF IsSynth(c) THEN 1 ELSE tail_nodes(c)
TailSet(c) ==
    IF IsSynth(c) THEN {c} ELSE fill_queue_recursive(EmptyQueue, c, {}, 0).tails

\* C20: in a tree of sequential groups and synths, tail_nodes() of a group
\* is 0 exactly when there is no synth below the group.
C20_TailZeroIffNoSynth ==
    \A g \in Groups : alive[g] =>
        (group_tail_nodes(g) = 0 <=> ~has_synth_children(g))

\* C11: no synth that an unfinished item of the compiled queue refers to is
\* destroyed, and every node in a child list is alive with a reference
\* count of at least 1.
C11_NoDestructionWhileQueued ==
    /\ phase = "run" => \A i \in items : i \notin done => alive[i]
    /\ \A g \in Groups : alive[g] =>
           \A c \in Range(Children(g)) : alive[c] /\ use_count[c] >= 1

\* the items, activation limits and successor lists of a queue
Plan(q) == <<q.items, q.limit, q.succ>>

\* e is an empty sequential group with a sibling before it and a sibling
\* after it in the sequential group g
Between(g, e) ==
    /\ kind[g] = "group" /\ kind[e] = "group" /\ empty(e)
    /\ \E i \in 2..(Len(Children(g)) - 1) : Children(g)[i] = e

\* the items of a queue that have i as a successor
PredsIn(q, i) == {p \in q.items : i \in q.succ[p]}

\* the tail items of child c in a queue: its items that have no successor
\* among the items of c
TailItems(q, c) ==
    {a \in SynthsBelow(c) \cap q.items : q.succ[a] \cap SynthsBelow(c) = {}}

\* the items of child c that come first: those that have no predecessor
\* among the items of c
HeadItems(q, c) ==
    {a \in SynthsBelow(c) \cap q.items : PredsIn(q, a) \cap SynthsBelow(c) = {}}

\* the position of child e in the list of g
IndexOf(g, e) == CHOOSE i \in 1..Len(Children(g)) : Children(g)[i] = e

\* C17: an empty sequential group has no item, no tail item and tail count
\* 0; when it sits in a sequential group between a child P that has synths
\* and a child S, removing it leaves the result of compile(root) as it is,
\* and in that result the first items of S have exactly the tail items of P
\* as predecessors and an activation limit that is their number and the
\* tail count of P.
C17_EmptyGroupTransparent ==
    [][\A e \in Created : (parent_[e] # NULL /\ Between(parent_[e], e) /\ Prune(e)) =>
          /\ SynthsBelow(e) = {} /\ TailSet(e) = {} /\ tail_nodes(e) = 0
          /\ Plan(compile)' = Plan(compile)
          /\ LET g == parent_[e]
                 P == Children(g)[IndexOf(g, e) - 1]
                 S == Children(g)[IndexOf(g, e) + 1]
                 q == compile
             IN  SynthsBelow(P) # {} =>
                     \A h \in HeadItems(q, S) :
                         /\ PredsIn(q, h) = TailItems(q, P)
                         /\ q.limit[h] = Cardinality(PredsIn(q, h))
                         /\ q.limit[h] = TailCount(P)]_vars

=============================================================================
